---------------------------- MODULE Spec2Model ----------------------------
(***************************************************************************)
(* Temporal normalization, resampling, merging and merge-integrity         *)
(* checking of kor-macro-data, modelled from the Python sources.           *)
(*                                                                         *)
(* Conventions                                                             *)
(*   - a date is a tuple <<y, m, d>>; NaT is the empty tuple               *)
(*   - a value is an exact fraction <<num, den>> in lowest terms (den > 0), *)
(*     so that means are exact; NaN / null is the empty tuple              *)
(*   - a string is a sequence of one-character strings                     *)
(***************************************************************************)
EXTENDS Integers, Sequences, FiniteSets, TLC

VARIABLES
    \* --- date normalizer --------------------------------------------------
    dtype,        \* dtype of the raw date column: "object", "int64", "float64"
    column,       \* the raw date column, a sequence of cells
    parsed,       \* [fn, out]: the normalizer that ran and the dates it returned
    npc,          \* "build" while the column is filled, "done" after parsing
    \* --- one series through a resample-and-merge pipeline -------------------
    shape,        \* shape of the date tokens of the raw file
    raw,          \* the raw file: a sequence of [cell, value]
    series,       \* [fn, agg, err, out]: the pipeline run and its per-series frame
    merged,       \* the merged table the pipeline ends with
    rpc,          \* "build" while the file is filled, "done" after the pipeline
    \* --- KoreanMacroDataMerger with several datasets ------------------------
    loads,        \* the load_data calls made so far: [name, source, rows]
    datasets,     \* self.datasets, a dict in insertion order: [name, df]
    table,        \* [err, how, freq, rows]: what merge_datasets returned
    mpc,          \* "build" while datasets are loaded, "merged" after the merge
    \* --- DataIntegrityChecker ------------------------------------------------
    original,     \* the source file: [col, rows, file], rows of [cell, value]
    merged_df,    \* the merged table handed to the checker: rows of [date, value]
    checker,      \* [issues, warnings, validations] of the checker instance
    report,       \* [date_shifts, value_mismatches, verdict] of the pass
    cpc           \* "build", "ready", "checked", "reported"

normVars == <<dtype, column, parsed, npc>>
resVars == <<shape, raw, series, merged, rpc>>
mergeVars == <<loads, datasets, table, mpc>>
checkVars == <<original, merged_df, checker, report, cpc>>
vars == <<normVars, resVars, mergeVars, checkVars>>

----------------------------------------------------------------------------
(* Bounds of the model *)

MaxCol == 2       \* longest raw date column
MaxRaw == 3       \* most rows of a raw file
MaxLoads == 2     \* most load_data calls before a merge
MaxOrig == 3      \* most rows of a source file given to the checker
MaxUnreadRows == 1  \* most rows of a source file the checker cannot read
MaxFeat == 5      \* most rows added to a table before its derived columns are made

----------------------------------------------------------------------------
(* Option values *)

NaT == <<>>
NaN == <<>>
IsNull(x) == x = <<>>

Raise == <<"raise", "raise", "raise", "raise">>  \* an exception left the function

RECURSIVE Gcd(_, _)
Gcd(a, b) == IF b = 0 THEN a ELSE Gcd(b, a % b)

Abs(x) == IF x < 0 THEN 0 - x ELSE x

\* the fraction n / d in lowest terms, d > 0
Frac(n, d) == LET g == Gcd(Abs(n), d) IN <<n \div g, d \div g>>
Num(v) == Frac(v, 1)
FAdd(a, b) == Frac(a[1] * b[2] + b[1] * a[2], a[2] * b[2])
FSub(a, b) == Frac(a[1] * b[2] - b[1] * a[2], a[2] * b[2])
FDivInt(a, k) == Frac(a[1], a[2] * k)
FAbs(a) == <<Abs(a[1]), a[2]>>
FLess(a, b) == a[1] * b[2] < b[1] * a[2]

RECURSIVE FSum(_)
FSum(s) == IF s = <<>> THEN Num(0) ELSE FAdd(Head(s), FSum(Tail(s)))

----------------------------------------------------------------------------
(* Calendar (proleptic Gregorian, as pandas Timestamp) *)

IsLeap(y) == (y % 4 = 0 /\ y % 100 # 0) \/ y % 400 = 0

DaysInMonth(y, m) ==
    IF m = 2 THEN (IF IsLeap(y) THEN 29 ELSE 28)
    ELSE IF m \in {4, 6, 9, 11} THEN 30 ELSE 31

ValidDate(y, m, d) == m \in 1..12 /\ d >= 1 /\ d <= DaysInMonth(y, m)

CumDays == <<0, 31, 59, 90, 120, 151, 181, 212, 243, 273, 304, 334>>
DaysBeforeMonth(y, m) == CumDays[m] + (IF m > 2 /\ IsLeap(y) THEN 1 ELSE 0)

\* ordinal of a date: days since 0001-01-01 plus one (datetime.toordinal)
Ordinal(dt) ==
    LET y == dt[1] - 1
    IN  365 * y + (y \div 4) - (y \div 100) + (y \div 400)
        + DaysBeforeMonth(dt[1], dt[2]) + dt[3]

\* (a - b).days
DaysBetween(a, b) == Ordinal(a) - Ordinal(b)

DateLT(a, b) == Ordinal(a) < Ordinal(b)
DateLE(a, b) == Ordinal(a) <= Ordinal(b)

\* linear month number of a date, and the month start / month end of it
MonthIdx(dt) == dt[1] * 12 + (dt[2] - 1)
MonthStart(mi) == <<mi \div 12, (mi % 12) + 1, 1>>
MonthEnd(mi) == <<mi \div 12, (mi % 12) + 1, DaysInMonth(mi \div 12, (mi % 12) + 1)>>

\* dt + pd.DateOffset(months=k), for a month-start date
AddMonths(dt, k) ==
    LET mi == MonthIdx(dt) + k
        y == mi \div 12
        m == (mi % 12) + 1
        d == IF dt[3] <= DaysInMonth(y, m) THEN dt[3] ELSE DaysInMonth(y, m)
    IN  <<y, m, d>>

----------------------------------------------------------------------------
(* Strings and raw date cells *)

DigitChars == <<"0", "1", "2", "3", "4", "5", "6", "7", "8", "9">>
IsDigit(c) == c \in {"0", "1", "2", "3", "4", "5", "6", "7", "8", "9"}
DigitVal(c) ==
    CASE c = "0" -> 0 [] c = "1" -> 1 [] c = "2" -> 2 [] c = "3" -> 3 [] c = "4" -> 4
      [] c = "5" -> 5 [] c = "6" -> 6 [] c = "7" -> 7 [] c = "8" -> 8 [] OTHER -> 9

AllDigits(s) == \A i \in 1..Len(s) : IsDigit(s[i])
Contains(s, c) == \E i \in 1..Len(s) : s[i] = c

RECURSIVE NumOf(_)
NumOf(s) == IF s = <<>> THEN 0
            ELSE 10 * NumOf(SubSeq(s, 1, Len(s) - 1)) + DigitVal(s[Len(s)])

\* str(n) of a non-negative integer
RECURSIVE DigitsOf(_)
DigitsOf(n) == IF n < 10 THEN <<DigitChars[n + 1]>>
               ELSE DigitsOf(n \div 10) \o <<DigitChars[(n % 10) + 1]>>

Pad2(n) == IF n < 10 THEN <<"0">> \o DigitsOf(n) ELSE DigitsOf(n)

\* A cell of a raw column: a string (kind "str", s), an integer (kind "int", n)
\* or a float with two decimals (kind "float", n + frac / 100).
StrCell(s) == [kind |-> "str", s |-> s, n |-> 0, frac |-> 0]
IntCell(n) == [kind |-> "int", s |-> <<>>, n |-> n, frac |-> 0]
FloatCell(n, frac) == [kind |-> "float", s |-> <<>>, n |-> n, frac |-> frac]

\* str(x): the shortest repr of a float drops a trailing zero (2020.10 -> "2020.1")
Str(c) ==
    CASE c.kind = "str" -> c.s
      [] c.kind = "int" -> DigitsOf(c.n)
      [] OTHER -> DigitsOf(c.n) \o <<".">> \o
                  (IF c.frac % 10 = 0 THEN DigitsOf(c.frac \div 10) ELSE Pad2(c.frac))


----------------------------------------------------------------------------
(* strptime, with the field patterns of _strptime: %Y is four digits, %m is  *)
(* 1[0-2]|0[1-9]|[1-9], %d is 3[01]|[12]\d|0[1-9]|[1-9]; the whole string    *)
(* must match.  A failed match is NaT here; the caller turns it into an      *)
(* exception when it does not pass errors='coerce'.                          *)

MonthField(s) ==
    IF Len(s) \in {1, 2} /\ AllDigits(s) /\ s[1] # "0" /\ NumOf(s) \in 1..12 THEN NumOf(s)
    ELSE IF Len(s) = 2 /\ AllDigits(s) /\ s[1] = "0" /\ NumOf(s) \in 1..9 THEN NumOf(s)
    ELSE 0

DayField(s) ==
    IF Len(s) \in {1, 2} /\ AllDigits(s) /\ s[1] # "0" /\ NumOf(s) \in 1..31 THEN NumOf(s)
    ELSE IF Len(s) = 2 /\ AllDigits(s) /\ s[1] = "0" /\ NumOf(s) \in 1..9 THEN NumOf(s)
    ELSE 0

YearOK(s) == Len(s) >= 4 /\ AllDigits(SubSeq(s, 1, 4))

MkDate(y, m, d) == IF m # 0 /\ d # 0 /\ ValidDate(y, m, d) THEN <<y, m, d>> ELSE NaT

\* format='%Y%m'
Strptime_Ym(s) ==
    IF YearOK(s) /\ Len(s) \in {5, 6}
    THEN MkDate(NumOf(SubSeq(s, 1, 4)), MonthField(SubSeq(s, 5, Len(s))), 1)
    ELSE NaT

\* format='%Y.%m'
Strptime_YdotM(s) ==
    IF YearOK(s) /\ Len(s) \in {6, 7} /\ s[5] = "."
    THEN MkDate(NumOf(SubSeq(s, 1, 4)), MonthField(SubSeq(s, 6, Len(s))), 1)
    ELSE NaT

\* format='%Y%m%d': the regex prefers a two-digit month, then backtracks
Strptime_Ymd(s) ==
    IF ~(YearOK(s) /\ Len(s) \in 6..8) THEN NaT
    ELSE LET y == NumOf(SubSeq(s, 1, 4))
             split(ml) == MkDate(y, MonthField(SubSeq(s, 5, 4 + ml)),
                                    DayField(SubSeq(s, 5 + ml, Len(s))))
         IN  IF Len(s) = 8 THEN split(2)
             ELSE IF Len(s) = 6 THEN split(1)
             ELSE IF MonthField(SubSeq(s, 5, 6)) # 0 /\ DayField(SubSeq(s, 7, 7)) # 0
                  THEN split(2) ELSE split(1)

\* pd.to_datetime(s) without a format, on the shapes the providers deliver:
\* YYYY-MM-DD, YYYY, YYYYMMDD and YYYYQn; anything else does not parse.
ParseIso(s) ==
    IF Len(s) = 10 /\ s[5] = "-" /\ s[8] = "-" /\ YearOK(s)
       /\ AllDigits(SubSeq(s, 6, 7)) /\ AllDigits(SubSeq(s, 9, 10))
    THEN MkDate(NumOf(SubSeq(s, 1, 4)), NumOf(SubSeq(s, 6, 7)), NumOf(SubSeq(s, 9, 10)))
    ELSE NaT

to_datetime(s) ==
    IF Len(s) = 10 THEN ParseIso(s)
    ELSE IF Len(s) = 4 /\ AllDigits(s) THEN <<NumOf(s), 1, 1>>
    ELSE IF Len(s) = 8 /\ AllDigits(s) THEN Strptime_Ymd(s)
    ELSE IF Len(s) = 6 /\ YearOK(s) /\ s[5] = "Q" /\ IsDigit(s[6]) /\ DigitVal(s[6]) \in 1..4
         THEN <<NumOf(SubSeq(s, 1, 4)), (DigitVal(s[6]) - 1) * 3 + 1, 1>>
    ELSE NaT

ParseIsoCell(c) == ParseIso(Str(c))

\* pd.to_datetime of a numeric cell: nanoseconds since the epoch.  Every number
\* of the model is below one day of nanoseconds, so the date is the epoch day.
to_datetime_numeric(c) == <<1970, 1, 1>>

OrRaise(dt) == IF dt = NaT THEN Raise ELSE dt

----------------------------------------------------------------------------
(* The date normalizers *)

\* merge_data_complete.parse_bok_date (the same function is in
\* examples/merge_data_properly.py); no errors='coerce' on the first three
\* branches, so a token that does not match raises.
parse_bok_date(c) ==
    LET date_str == Str(c)
    IN  IF Contains(date_str, ".") THEN OrRaise(Strptime_YdotM(date_str))
        ELSE IF Len(date_str) = 8 THEN OrRaise(Strptime_Ymd(date_str))
        ELSE IF Len(date_str) = 6 THEN OrRaise(Strptime_Ym(date_str))
        ELSE to_datetime(date_str)

\* BOKConnector._parse_bok_date: every exception becomes NaT
BOK_parse_bok_date(c) ==
    LET date_str == Str(c)
    IN  IF Contains(date_str, "Q")
        THEN IF IsDigit(date_str[Len(date_str)]) /\ YearOK(date_str)
             THEN MkDate(NumOf(SubSeq(date_str, 1, 4)),
                         (DigitVal(date_str[Len(date_str)]) - 1) * 3 + 1, 1)
             ELSE NaT
        ELSE IF Len(date_str) = 6 THEN Strptime_Ym(date_str)
        ELSE IF Len(date_str) = 8 THEN Strptime_Ymd(date_str)
        ELSE IF Len(date_str) = 4 THEN to_datetime(date_str \o <<"-", "0", "1", "-", "0", "1">>)
        ELSE to_datetime(date_str)

\* KOSISConnector._parse_kosis_date: the length tests come before the quarter test
KOSIS_parse_kosis_date(c) ==
    LET date_str == Str(c)
    IN  IF Len(date_str) = 4 THEN to_datetime(date_str \o <<"-", "0", "1", "-", "0", "1">>)
        ELSE IF Len(date_str) = 6 THEN Strptime_Ym(date_str)
        ELSE IF Len(date_str) = 8 THEN Strptime_Ymd(date_str)
        ELSE IF Contains(date_str, "Q")
             THEN IF IsDigit(date_str[Len(date_str)]) /\ YearOK(date_str)
                  THEN MkDate(NumOf(SubSeq(date_str, 1, 4)),
                              DigitVal(date_str[Len(date_str)]) * 3, 1)
                  ELSE NaT
        ELSE to_datetime(date_str)

\* KoreanMacroDataMerger.standardize_columns, the date column: for an object
\* column the FIRST cell picks one format for the whole column; any other dtype
\* goes to pd.to_datetime as numbers.
standardize_columns(dt, col) ==
    LET first == Str(col[1])
        one(c) ==
            IF dt = "object"
            THEN IF Contains(first, ".") THEN Strptime_YdotM(Str(c))
                 ELSE IF Len(first) = 8 THEN Strptime_Ymd(Str(c))
                 ELSE IF Len(first) = 6 THEN Strptime_Ym(Str(c))
                 ELSE to_datetime(Str(c))
            ELSE to_datetime_numeric(c)
    IN  [i \in 1..Len(col) |-> one(col[i])]

Apply(f(_), col) == [i \in 1..Len(col) |-> f(col[i])]

----------------------------------------------------------------------------
(* Frames: a frame is a sequence of rows [date, value]                      *)

Row(d, v) == [date |-> d, value |-> v]

HasDate(r) == r.date # NaT
HasBoth(r) == r.date # NaT /\ r.value # NaN
HasValue(r) == r.value # NaN

\* df[['date', 'value']].dropna()
dropna(f) == SelectSeq(f, HasBoth)
\* df.dropna(subset=['date'])
dropna_date(f) == SelectSeq(f, HasDate)

\* stable sort by date (sort_values('date'); the sort a resampler does first)
RECURSIVE InsertByDate(_, _)
InsertByDate(r, f) ==
    IF f = <<>> THEN <<r>>
    ELSE IF DateLT(r.date, Head(f).date) THEN <<r>> \o f
    ELSE <<Head(f)>> \o InsertByDate(r, Tail(f))

RECURSIVE SortByDate(_)
SortByDate(f) ==
    IF f = <<>> THEN <<>>
    ELSE InsertByDate(f[Len(f)], SortByDate(SubSeq(f, 1, Len(f) - 1)))

SetMin(S) == CHOOSE x \in S : \A y \in S : x <= y
SetMax(S) == CHOOSE x \in S : \A y \in S : x >= y

\* Period number of a date under a resampling rule, and the labels of a period:
\* 'M', 'Q' and 'Y' label a period by its LAST day, 'MS' by its first day.
PeriodIdx(freq, dt) ==
    CASE freq \in {"M", "MS"} -> MonthIdx(dt)
      [] freq = "Q" -> dt[1] * 4 + ((dt[2] - 1) \div 3)
      [] OTHER -> dt[1]

PeriodLabel(freq, p) ==
    CASE freq = "M" -> MonthEnd(p)
      [] freq = "MS" -> MonthStart(p)
      [] freq = "Q" -> MonthEnd((p \div 4) * 12 + (p % 4) * 3 + 2)
      [] OTHER -> <<p, 12, 31>>

\* the values of the rows of period p, in chronological order
RECURSIVE ValuesIn(_, _, _)
ValuesIn(freq, p, f) ==
    IF f = <<>> THEN <<>>
    ELSE (IF PeriodIdx(freq, Head(f).date) = p THEN <<Head(f).value>> ELSE <<>>)
         \o ValuesIn(freq, p, Tail(f))

NotNaN(v) == v # NaN
NonNull(vs) == SelectSeq(vs, NotNaN)

\* a mean that forgets to divide by the number of observations
agg_mean_undivided(vs) == IF NonNull(vs) = <<>> THEN NaN ELSE FSum(NonNull(vs))

\* the aggregations of a bin; every one of them skips NaN
agg_mean(vs) == IF NonNull(vs) = <<>> THEN NaN
                ELSE FDivInt(FSum(NonNull(vs)), Len(NonNull(vs)))
agg_sum(vs) == FSum(NonNull(vs))
agg_first(vs) == IF NonNull(vs) = <<>> THEN NaN ELSE Head(NonNull(vs))
agg_last(vs) == IF NonNull(vs) = <<>> THEN NaN ELSE NonNull(vs)[Len(NonNull(vs))]

Aggregate(agg, vs) ==
    CASE agg = "mean" -> agg_mean(vs)
      [] agg = "sum" -> agg_sum(vs)
      [] agg = "first" -> agg_first(vs)
      [] OTHER -> agg_last(vs)

\* df.set_index('date').resample(freq).<agg>().reset_index(): one row for EVERY
\* period from the first to the last observed one, empty periods included
resample(freq, agg, f) ==
    IF f = <<>> THEN <<>>
    ELSE LET g == SortByDate(f)
             lo == PeriodIdx(freq, g[1].date)
             hi == PeriodIdx(freq, g[Len(g)].date)
         IN  [i \in 1..(hi - lo + 1) |->
                 Row(PeriodLabel(freq, lo + i - 1),
                     Aggregate(agg, ValuesIn(freq, lo + i - 1, g)))]

\* fillna(method='ffill')
RECURSIVE ffill_from(_, _)
ffill_from(last, f) ==
    IF f = <<>> THEN <<>>
    ELSE LET v == IF Head(f).value = NaN THEN last ELSE Head(f).value
         IN  <<Row(Head(f).date, v)>> \o ffill_from(v, Tail(f))

ffill(f) == ffill_from(NaN, f)

\* monthly['date'].dt.to_period('M').dt.to_timestamp()
to_month_start(f) == [i \in 1..Len(f) |-> Row(MonthStart(MonthIdx(f[i].date)), f[i].value)]

\* df.groupby('date')['value'].mean().reset_index(): one row per distinct
\* date, sorted, rows without a date left out
groupby_date_mean(f) ==
    LET g == SortByDate(dropna_date(f))
        firstAt(i) == \A j \in 1..(i - 1) : g[j].date # g[i].date
        sameDate(d, ff) == SelectSeq(ff, LAMBDA r : r.date = d)
        vals(d) == [k \in 1..Len(sameDate(d, g)) |-> sameDate(d, g)[k].value]
        heads == SelectSeq([i \in 1..Len(g) |-> [i |-> i, r |-> g[i]]],
                           LAMBDA x : firstAt(x.i))
    IN  [k \in 1..Len(heads) |-> Row(heads[k].r.date, agg_mean(vals(heads[k].r.date)))]

\* pd.merge(left, right, on='date', how='left') for a left frame of dates:
\* every left date in order, with the value of each right row of exactly
\* that date, or NaN when there is none
RowsAt(d, f) == SelectSeq(f, LAMBDA r : r.date = d)

RECURSIVE merge_left_part(_, _, _, _, _)
merge_left_part(first, right, keys, lo, hi) ==
    IF lo > hi THEN <<>>
    ELSE IF lo = hi
    THEN (IF MonthStart(first + lo - 1) \in keys
          THEN RowsAt(MonthStart(first + lo - 1), right)
          ELSE <<Row(MonthStart(first + lo - 1), NaN)>>)
    ELSE merge_left_part(first, right, keys, lo, (lo + hi) \div 2)
         \o merge_left_part(first, right, keys, ((lo + hi) \div 2) + 1, hi)

\* ... for the left frame pd.date_range(start, stop, freq='MS')
merge_left_MS(start, stop, right) ==
    merge_left_part(MonthIdx(start), right, {right[i].date : i \in 1..Len(right)},
                    1, MonthIdx(stop) - MonthIdx(start) + 1)

\* pd.date_range(start, end, freq='MS')
date_range_MS(start, stop) ==
    LET lo == IF start[3] = 1 THEN MonthIdx(start) ELSE MonthIdx(start) + 1
        hi == MonthIdx(stop)
    IN  [i \in 1..(hi - lo + 1) |-> MonthStart(lo + i - 1)]

----------------------------------------------------------------------------
(* Specification of the date normalizers: a provider fills a raw date       *)
(* column of one dtype, then one of the normalizers is run on it.           *)

TokYears == {2020}
TokMonths == {1, 10}
TokDays == {1, 15}
TokQuarters == 1..4

ObjectCells ==
       {StrCell(DigitsOf(y) \o Pad2(m)) : y \in TokYears, m \in TokMonths}
  \cup {StrCell(DigitsOf(y) \o Pad2(m) \o Pad2(d)) : y \in TokYears, m \in TokMonths, d \in TokDays}
  \cup {StrCell(DigitsOf(y) \o <<".">> \o Pad2(m)) : y \in TokYears, m \in TokMonths}
  \cup {StrCell(DigitsOf(y) \o <<"Q">> \o DigitsOf(q)) : y \in TokYears, q \in TokQuarters}
  \cup {StrCell(DigitsOf(y)) : y \in TokYears}
  \cup {StrCell(DigitsOf(y) \o <<"-">> \o Pad2(m) \o <<"-">> \o Pad2(d)) :
            y \in TokYears, m \in TokMonths, d \in TokDays}

IntCells ==
       {IntCell(y * 100 + m) : y \in TokYears, m \in TokMonths}
  \cup {IntCell(y * 10000 + m * 100 + d) : y \in TokYears, m \in TokMonths, d \in TokDays}
  \cup {IntCell(y) : y \in TokYears}

FloatCells == {FloatCell(y, m) : y \in TokYears, m \in TokMonths}

CellsOf(dt) == CASE dt = "object" -> ObjectCells
                 [] dt = "int64" -> IntCells
                 [] OTHER -> FloatCells

ResIdle == shape = "none" /\ raw = <<>> /\ merged = <<>> /\ rpc = "idle"
           /\ series = [fn |-> "none", agg |-> "none", err |-> FALSE, out |-> <<>>]

MergeIdle == loads = <<>> /\ datasets = <<>> /\ mpc = "idle"
             /\ table = [err |-> "none", how |-> "none", freq |-> "none", rows |-> <<>>]

CheckIdle == original = [col |-> "none", rows |-> <<>>, file |-> "none"] /\ merged_df = <<>> /\ cpc = "idle"
             /\ checker = [issues |-> <<>>, warnings |-> <<>>, validations |-> <<>>]
             /\ report = [date_shifts |-> <<>>, value_mismatches |-> <<>>, verdict |-> "none"]

NormIdle == dtype = "object" /\ column = <<>> /\ parsed = [fn |-> "none", out |-> <<>>]
            /\ npc = "idle"

InitNorm ==
    /\ ResIdle /\ MergeIdle /\ CheckIdle
    /\ dtype \in {"object", "int64", "float64"}
    /\ column = <<>>
    /\ parsed = [fn |-> "none", out |-> <<>>]
    /\ npc = "build"

AppendCell ==
    /\ npc = "build"
    /\ Len(column) < MaxCol
    /\ \E c \in CellsOf(dtype) : column' = Append(column, c)
    /\ UNCHANGED <<dtype, parsed, npc, resVars, mergeVars, checkVars>>

Run_standardize_columns ==
    /\ npc = "build" /\ column # <<>>
    /\ parsed' = [fn |-> "standardize_columns", out |-> standardize_columns(dtype, column)]
    /\ npc' = "done"
    /\ UNCHANGED <<dtype, column, resVars, mergeVars, checkVars>>

Run_parse_bok_date ==
    /\ npc = "build" /\ column # <<>>
    /\ parsed' = [fn |-> "parse_bok_date", out |-> Apply(parse_bok_date, column)]
    /\ npc' = "done"
    /\ UNCHANGED <<dtype, column, resVars, mergeVars, checkVars>>

Run_BOK_parse_bok_date ==
    /\ npc = "build" /\ column # <<>>
    /\ parsed' = [fn |-> "BOK._parse_bok_date", out |-> Apply(BOK_parse_bok_date, column)]
    /\ npc' = "done"
    /\ UNCHANGED <<dtype, column, resVars, mergeVars, checkVars>>

Run_KOSIS_parse_kosis_date ==
    /\ npc = "build" /\ column # <<>>
    /\ parsed' = [fn |-> "KOSIS._parse_kosis_date", out |-> Apply(KOSIS_parse_kosis_date, column)]
    /\ npc' = "done"
    /\ UNCHANGED <<dtype, column, resVars, mergeVars, checkVars>>

NextNorm ==
    \/ AppendCell
    \/ Run_standardize_columns
    \/ Run_parse_bok_date
    \/ Run_BOK_parse_bok_date
    \/ Run_KOSIS_parse_kosis_date

SpecNorm == InitNorm /\ [][NextNorm]_vars

----------------------------------------------------------------------------
(* The date a cell stands for, read off its own shape (spec 4.1, rules 2, 3 *)
(* and 5): YYYYMM and YYYY.MM are day 1 of the month, YYYYMMDD is the day.  *)
(* NaT for the other shapes, about which C10 says nothing.                  *)

OwnShapeDate(c) ==
    LET s == Str(c)
    IN  IF c.kind = "float" THEN <<c.n, c.frac, 1>>
        ELSE IF Len(s) = 6 /\ AllDigits(s)
             THEN <<NumOf(SubSeq(s, 1, 4)), NumOf(SubSeq(s, 5, 6)), 1>>
        ELSE IF Len(s) = 8 /\ AllDigits(s)
             THEN <<NumOf(SubSeq(s, 1, 4)), NumOf(SubSeq(s, 5, 6)), NumOf(SubSeq(s, 7, 8))>>
        ELSE IF Len(s) = 7 /\ s[5] = "."
             THEN <<NumOf(SubSeq(s, 1, 4)), NumOf(SubSeq(s, 6, 7)), 1>>
        ELSE NaT

\* C10 (as claimed): after standardize_columns every YYYYMM, YYYY.MM and
\* YYYYMMDD cell holds the date of its own shape, whatever the dtype of the
\* column and whatever the other cells are.
C10_OwnShapeRule ==
    (npc = "done" /\ parsed.fn = "standardize_columns") =>
        \A i \in 1..Len(column) :
            OwnShapeDate(column[i]) # NaT => parsed.out[i] = OwnShapeDate(column[i])

----------------------------------------------------------------------------
(* One series through the pipelines: the loaders of merge_data_complete.py  *)
(* (BOK, FRED, KOSIS), each followed by the merge onto the fixed month grid, *)
(* and KoreanMacroDataMerger (load_data, create_research_dataset).          *)

\* the raw files of the model: tokens of one shape, in chronological order
RawMonths == {<<2020, 1>>, <<2020, 2>>, <<2020, 4>>, <<2020, 7>>}
MidMonth == {<<2020, 1, 15>>}
RawYears == {2020, 2021}
RawValues == {Num(50), Num(55)}
Shapes == {"YYYYMM", "YYYYMMDD", "ISO", "YYYY"}

RawDates(sh) ==
    CASE sh \in {"YYYYMMDD", "ISO"} -> {<<ym[1], ym[2], 1>> : ym \in RawMonths} \cup MidMonth
      [] sh = "YYYYMM" -> {<<ym[1], ym[2], 1>> : ym \in RawMonths}
      [] OTHER -> {<<y, 1, 1>> : y \in RawYears}

Token(sh, dt) ==
    CASE sh = "YYYYMMDD" -> StrCell(DigitsOf(dt[1]) \o Pad2(dt[2]) \o Pad2(dt[3]))
      [] sh = "ISO" -> StrCell(DigitsOf(dt[1]) \o <<"-">> \o Pad2(dt[2]) \o <<"-">> \o Pad2(dt[3]))
      [] sh = "YYYYMM" -> StrCell(DigitsOf(dt[1]) \o Pad2(dt[2]))
      [] OTHER -> StrCell(DigitsOf(dt[1]))

\* the target range of the complete merge (merge_data_complete.py:255-256)
start_date == <<2010, 1, 1>>
end_date == <<2024, 12, 1>>

\* the frame [date, value] of a raw file under a per-cell date parser
ParsedFrame(parse(_), rows) == [i \in 1..Len(rows) |-> Row(parse(rows[i].cell), rows[i].value)]
AnyRaise(f) == \E i \in 1..Len(f) : f[i].date = Raise

\* fillna(method='bfill'), and a merge that back-fills the merged table
bfill(f) ==
    [i \in 1..Len(f) |->
        LET later == {j \in i..Len(f) : f[j].value # NaN}
        IN  IF later = {} THEN f[i] ELSE Row(f[i].date, f[SetMin(later)].value)]
merge_on_grid_backfilled(f) == bfill(merge_left_MS(start_date, end_date, f))

\* merge_data_complete.main, step 5: left-join the series onto the month grid
merge_on_grid(f) == merge_left_MS(start_date, end_date, f)

\* merge_data_complete.main, BOK loader
bok_monthly(rows) ==
    to_month_start(resample("M", "mean", dropna(ParsedFrame(parse_bok_date, rows))))

\* merge_data_complete.main, FRED loader: the branch is chosen by
\* (last row's date - first row's date).days / len(result) > 60
fred_is_coarse(result) ==
    DaysBetween(result[Len(result)].date, result[1].date) > 60 * Len(result)

fred_monthly(result) ==
    IF fred_is_coarse(result)
    THEN to_month_start(ffill(resample("MS", "first", result)))
    ELSE to_month_start(resample("M", "mean", result))

\* merge_data_complete.main, KOSIS employment loader (monthly, YYYYMM)
ParseYm(c) == OrRaise(Strptime_Ym(Str(c)))
employment_monthly(rows) == to_month_start(groupby_date_mean(ParsedFrame(ParseYm, rows)))

\* merge_data_complete.main, KOSIS demographics loader (annual, YYYY)
ParseYear(c) == OrRaise(ParseIso(Str(c) \o <<"-", "0", "1", "-", "0", "1">>))
demographics_monthly(rows) ==
    to_month_start(ffill(resample("MS", "first", groupby_date_mean(ParsedFrame(ParseYear, rows)))))

\* KoreanMacroDataMerger.aggregate_time_series(df, freq, agg_func)
aggregate_time_series(df, freq, agg) == resample(freq, agg, dropna_date(df))

\* examples/merge_data_properly.py, aggregate_to_monthly(df, value_col,
\* agg_func): an unknown agg_func falls back to the mean
aggregate_to_monthly(df, agg) ==
    to_month_start(resample("M", IF agg \in {"mean", "sum", "last"} THEN agg ELSE "mean", df))

\* KoreanMacroDataMerger.load_data: the frame after standardize_columns
load_data(rows) ==
    LET kinds == {rows[i].cell.kind : i \in 1..Len(rows)}
        dt == IF kinds = {"int"} THEN "int64"
              ELSE IF kinds \subseteq {"int", "float"} THEN "float64" ELSE "object"
        dates == standardize_columns(dt, [i \in 1..Len(rows) |-> rows[i].cell])
    IN  [i \in 1..Len(rows) |-> Row(dates[i], rows[i].value)]

\* create_research_dataset: the rows of [start, stop] (no bound when NaT)
InRange(start, stop, f) ==
    SelectSeq(f, LAMBDA r : (start = NaT \/ DateLE(start, r.date))
                            /\ (stop = NaT \/ DateLE(r.date, stop)))

Done(fn, agg, err, out, m) ==
    /\ series' = [fn |-> fn, agg |-> agg, err |-> err, out |-> out]
    /\ merged' = m
    /\ rpc' = "done"
    /\ UNCHANGED <<shape, raw, normVars, mergeVars, checkVars>>

InitRes ==
    /\ NormIdle /\ MergeIdle /\ CheckIdle
    /\ shape \in Shapes
    /\ raw = <<>>
    /\ series = [fn |-> "none", agg |-> "none", err |-> FALSE, out |-> <<>>]
    /\ merged = <<>>
    /\ rpc = "build"

AddRawRow ==
    /\ rpc = "build"
    /\ Len(raw) < MaxRaw
    /\ \E dt \in RawDates(shape), v \in RawValues :
          /\ IF raw = <<>> THEN TRUE ELSE DateLE(parse_bok_date(raw[Len(raw)].cell), dt)
          /\ raw' = Append(raw, [cell |-> Token(shape, dt), value |-> v])
    /\ UNCHANGED <<shape, series, merged, rpc, normVars, mergeVars, checkVars>>

Script_BOK ==
    /\ rpc = "build" /\ raw # <<>>
    /\ IF AnyRaise(ParsedFrame(parse_bok_date, raw))
       THEN Done("script_bok", "mean", TRUE, <<>>, merge_on_grid(<<>>))
       ELSE LET out == bok_monthly(raw)
            IN  Done("script_bok", "mean", FALSE, out, merge_on_grid(out))

Script_FRED ==
    /\ rpc = "build" /\ raw # <<>> /\ shape = "ISO"
    /\ LET result == dropna(ParsedFrame(ParseIsoCell, raw))
       IN  IF result = <<>>
           THEN Done("script_fred", "none", TRUE, <<>>, merge_on_grid(<<>>))
           ELSE LET out == fred_monthly(result)
                IN  Done("script_fred", IF fred_is_coarse(result) THEN "ffill" ELSE "mean",
                         FALSE, out, merge_on_grid(out))

Script_KOSIS_employment ==
    /\ rpc = "build" /\ raw # <<>> /\ shape \in {"YYYYMM", "YYYYMMDD"}
    /\ IF AnyRaise(ParsedFrame(ParseYm, raw))
       THEN Done("script_employment", "mean", TRUE, <<>>, merge_on_grid(<<>>))
       ELSE LET out == employment_monthly(raw)
            IN  Done("script_employment", "mean", FALSE, out, merge_on_grid(out))

Script_KOSIS_demographics ==
    /\ rpc = "build" /\ raw # <<>> /\ shape = "YYYY"
    /\ LET out == demographics_monthly(raw)
       IN  Done("script_demographics", "ffill", FALSE, out, merge_on_grid(out))

\* load_data, then aggregate_time_series(df, 'M', agg_func) called directly
Merger_aggregate_time_series ==
    /\ rpc = "build" /\ raw # <<>>
    /\ \E agg \in {"mean", "sum", "last"} :
          Done("aggregate_time_series", agg, FALSE,
               aggregate_time_series(load_data(raw), "M", agg), <<>>)

\* examples/merge_data_properly.py: load_and_prepare_fred_data, then
\* aggregate_to_monthly
Example_aggregate_to_monthly ==
    /\ rpc = "build" /\ raw # <<>> /\ shape = "ISO"
    /\ \E agg \in {"mean", "sum", "last"} :
          Done("aggregate_to_monthly", agg, FALSE,
               aggregate_to_monthly(dropna_date(ParsedFrame(ParseIsoCell, raw)), agg), <<>>)

\* load_data, then create_research_dataset('M', start_date, end_date) with one
\* dataset: merge_datasets aggregates it by the default mean and sorts it, and
\* the rows of the range are kept
Merger_create_research_dataset ==
    /\ rpc = "build" /\ raw # <<>>
    /\ LET out == aggregate_time_series(load_data(raw), "M", "mean")
       IN  Done("merger", "mean", FALSE, out, InRange(start_date, end_date, SortByDate(out)))

NextRes ==
    \/ AddRawRow
    \/ Script_BOK
    \/ Script_FRED
    \/ Script_KOSIS_employment
    \/ Script_KOSIS_demographics
    \/ Merger_aggregate_time_series
    \/ Example_aggregate_to_monthly
    \/ Merger_create_research_dataset

SpecRes == InitRes /\ [][NextRes]_vars

----------------------------------------------------------------------------
(* What a raw file says, read off the tokens themselves                     *)

\* the date a token of the raw files denotes
TokenDate(c) ==
    LET s == Str(c)
    IN  IF Len(s) = 10
        THEN <<NumOf(SubSeq(s, 1, 4)), NumOf(SubSeq(s, 6, 7)), NumOf(SubSeq(s, 9, 10))>>
        ELSE IF Len(s) = 8
        THEN <<NumOf(SubSeq(s, 1, 4)), NumOf(SubSeq(s, 5, 6)), NumOf(SubSeq(s, 7, 8))>>
        ELSE IF Len(s) = 6 THEN <<NumOf(SubSeq(s, 1, 4)), NumOf(SubSeq(s, 5, 6)), 1>>
        ELSE <<NumOf(s), 1, 1>>

RawIdx == 1..Len(raw)
RawInMonth(mi) == {i \in RawIdx : MonthIdx(TokenDate(raw[i].cell)) = mi}
DistinctRawMonths == \A i, j \in RawIdx : i # j => TokenDate(raw[i].cell) # TokenDate(raw[j].cell)
GridMonths == MonthIdx(start_date)..MonthIdx(end_date)

\* the value the raw file has for month mi when it has one row per month
SourceValue(mi) ==
    IF RawInMonth(mi) = {} THEN NaN ELSE raw[CHOOSE i \in RawInMonth(mi) : TRUE].value

MonthlyPipelines == {"script_bok", "script_employment", "merger"}

\* C5 (as claimed): a YYYYMM series with absent months, merged at monthly
\* frequency over the range, gives one row per month of the range, dated day 1,
\* with the source value of every month present and null for every absent one.
C5_MonthlyRowsOverRange ==
    (rpc = "done" /\ shape = "YYYYMM" /\ DistinctRawMonths /\ ~series.err
       /\ series.fn \in MonthlyPipelines /\ series.agg = "mean") =>
        merged = [k \in 1..Cardinality(GridMonths) |->
                     Row(MonthStart(MonthIdx(start_date) + k - 1),
                         SourceValue(MonthIdx(start_date) + k - 1))]

\* a raw file is a quarterly series: every date is day 1 of a quarter's first month
QuarterlyRaw ==
    /\ DistinctRawMonths
    /\ \A i \in RawIdx : TokenDate(raw[i].cell)[3] = 1 /\ TokenDate(raw[i].cell)[2] \in {1, 4, 7, 10}

HasRow(f, d, v) == \E j \in 1..Len(f) : f[j].date = d /\ f[j].value = v

\* C6 (as claimed): forward-filling a quarterly series to monthly repeats each
\* quarter's value on all three months of the quarter, the last observed
\* quarter included.
C6_QuarterOnThreeMonths ==
    (rpc = "done" /\ series.fn = "script_fred" /\ series.agg = "ffill" /\ QuarterlyRaw) =>
        \A i \in RawIdx : \A k \in 0..2 :
            HasRow(series.out, AddMonths(TokenDate(raw[i].cell), k), raw[i].value)

\* C7: after a forward-fill onto the monthly grid and the merge, every month
\* strictly before the month of the first native observation is null.
FirstObsMonth ==
    SetMin({MonthIdx(TokenDate(raw[i].cell)) : i \in {k \in RawIdx : raw[k].value # NaN}})

C7_NoBackFill ==
    (rpc = "done" /\ series.agg = "ffill" /\ \E i \in RawIdx : raw[i].value # NaN) =>
        \A j \in 1..Len(merged) :
            MonthIdx(merged[j].date) < FirstObsMonth => merged[j].value = NaN

\* C7 witness: a forward-filled series was merged: a month without a native
\* observation carries a filled value, and the months before the first
\* observation are rows of the merged table.
C7_Witness ==
    /\ rpc = "done" /\ series.agg = "ffill"
    /\ \E j \in 1..Len(merged) :
          /\ merged[j].value # NaN
          /\ RawInMonth(MonthIdx(merged[j].date)) = {}
    /\ \E j \in 1..Len(merged) : MonthIdx(merged[j].date) < FirstObsMonth

\* C8 (as claimed): after resampling to monthly, every date of the result is
\* the first day of its month, in KoreanMacroDataMerger.aggregate_time_series
\* as in the scripts.
C8_MonthStartAnchored ==
    (rpc = "done" /\ ~series.err) =>
        \A j \in 1..Len(series.out) : series.out[j].date[3] = 1

\* the observations of month mi in chronological order (the raw file is
\* chronological), their mean and the last of them
ObsOf(mi) == SelectSeq([i \in RawIdx |-> raw[i]],
                       LAMBDA r : MonthIdx(TokenDate(r.cell)) = mi)
RECURSIVE NumSum(_)
NumSum(rs) == IF rs = <<>> THEN 0 ELSE Head(rs).value[1] + NumSum(Tail(rs))
MeanOf(rs) == Frac(NumSum(rs), Len(rs))
LastOf(rs) == rs[Len(rs)].value

ValueAtMonth(f, mi) ==
    LET js == {j \in 1..Len(f) : MonthIdx(f[j].date) = mi}
    IN  IF Cardinality(js) = 1 THEN f[CHOOSE j \in js : TRUE].value ELSE Raise

DefaultResamplers == {"script_bok", "aggregate_time_series", "merger"}

----------------------------------------------------------------------------
(* KoreanMacroDataMerger with several datasets: load_data by name, then      *)
(* merge_datasets.  A table row is [date, vals], vals giving the value of     *)
(* column value_<name> for every dataset name merged so far.                  *)

\* self.datasets[data_name] = df: a key already there keeps its place and
\* gets the new frame
dict_set(d, name, df) ==
    IF \E i \in 1..Len(d) : d[i].name = name
    THEN [i \in 1..Len(d) |-> IF d[i].name = name THEN [name |-> name, df |-> df] ELSE d[i]]
    ELSE Append(d, [name |-> name, df |-> df])

RECURSIVE SortedDates(_)
SortedDates(S) ==
    IF S = {} THEN <<>>
    ELSE LET m == CHOOSE x \in S : \A y \in S : DateLE(x, y)
         IN  <<m>> \o SortedDates(S \ {m})

DatesOf(rows) == {rows[i].date : i \in 1..Len(rows)}

TRow(d, vals) == [date |-> d, vals |-> vals]

RECURSIVE Flatten(_)
Flatten(ss) == IF ss = <<>> THEN <<>> ELSE Head(ss) \o Flatten(Tail(ss))

\* pd.merge(left, right, on='date', how=how) followed by sort_values('date'):
\* the keys of the join, and for every key the rows of the left paired with
\* the rows of the right, a side without the key giving nulls
pd_merge(left, lcols, right, name, how) ==
    LET lk == DatesOf(left)
        rk == DatesOf(right)
        keys == CASE how = "outer" -> lk \cup rk
                  [] how = "inner" -> lk \cap rk
                  [] OTHER -> lk
        ks == SortedDates(keys)
        L(d) == IF d \in lk THEN SelectSeq(left, LAMBDA r : r.date = d)
                ELSE <<TRow(d, [n \in lcols |-> NaN])>>
        R(d) == IF d \in rk THEN SelectSeq(right, LAMBDA r : r.date = d)
                ELSE <<Row(d, NaN)>>
        at(d) == [k \in 1..(Len(L(d)) * Len(R(d))) |->
                     TRow(d, L(d)[((k - 1) \div Len(R(d))) + 1].vals
                             @@ (name :> R(d)[((k - 1) % Len(R(d))) + 1].value))]
    IN  Flatten([i \in 1..Len(ks) |-> at(ks[i])])

RECURSIVE merge_rest(_, _, _, _)
merge_rest(acc, cols, ds, how) ==
    IF ds = <<>> THEN acc
    ELSE merge_rest(pd_merge(acc, cols, Head(ds).df, Head(ds).name, how),
                    cols \cup {Head(ds).name}, Tail(ds), how)

SortTable(t) ==
    LET ks == SortedDates(DatesOf(t))
    IN  Flatten([i \in 1..Len(ks) |-> SelectSeq(t, LAMBDA r : r.date = ks[i])])

\* KoreanMacroDataMerger.merge_datasets(how=how, freq=freq) on self.datasets
merge_datasets(ds, how, freq) ==
    IF ds = <<>>
    THEN [err |-> "ValueError", how |-> how, freq |-> freq, rows |-> <<>>]
    ELSE LET aggregated ==
                 [i \in 1..Len(ds) |->
                     [name |-> ds[i].name,
                      df |-> IF freq = "none" THEN ds[i].df
                             ELSE aggregate_time_series(ds[i].df, freq, "mean")]]
             first == [j \in 1..Len(aggregated[1].df) |->
                          TRow(aggregated[1].df[j].date,
                               (aggregated[1].name :> aggregated[1].df[j].value))]
         IN  [err |-> "none", how |-> how, freq |-> freq,
              rows |-> SortTable(merge_rest(first, {aggregated[1].name}, Tail(aggregated), how))]

\* the files of the model: a name to load under, the source the file comes
\* from, and the months of 2020 it has a row for (ISO dates, day 1)
Names == {"rate", "cpi"}
Sources == {"A", "B"}
LoadMonthSets == {{1}, {3}, {1, 2}, {1, 4}}
ValueOfSource(src) == IF src = "A" THEN Num(50) ELSE Num(55)

RECURSIVE FileRows(_, _)
FileRows(ms, src) ==
    IF ms = {} THEN <<>>
    ELSE LET m == SetMin(ms)
         IN  <<[cell |-> Token("ISO", <<2020, m, 1>>), value |-> ValueOfSource(src)]>>
             \o FileRows(ms \ {m}, src)

InitMerge ==
    /\ NormIdle /\ ResIdle /\ CheckIdle
    /\ loads = <<>>
    /\ datasets = <<>>
    /\ table = [err |-> "none", how |-> "none", freq |-> "none", rows |-> <<>>]
    /\ mpc = "build"

Merger_load_data ==
    /\ mpc = "build"
    /\ Len(loads) < MaxLoads
    /\ \E name \in Names, src \in Sources, ms \in LoadMonthSets :
          LET rows == FileRows(ms, src)
          IN  /\ loads' = Append(loads, [name |-> name, source |-> src, rows |-> rows])
              /\ datasets' = dict_set(datasets, name, load_data(rows))
    /\ UNCHANGED <<table, mpc, normVars, resVars, checkVars>>

Merger_merge_datasets ==
    /\ mpc = "build"
    /\ \E how \in {"outer", "inner"}, freq \in {"M", "none"} :
          table' = merge_datasets(datasets, how, freq)
    /\ mpc' = "merged"
    /\ UNCHANGED <<loads, datasets, normVars, resVars, checkVars>>

NextMerge ==
    \/ Merger_load_data
    \/ Merger_merge_datasets

SpecMerge == InitMerge /\ [][NextMerge]_vars

\* the months the series taking part in the merge have an observation in
InputMonths ==
    UNION {{MonthIdx(datasets[i].df[j].date) : j \in 1..Len(datasets[i].df)} :
               i \in 1..Len(datasets)}

\* C3 (as claimed): after an outer merge the date column has exactly one row
\* for every month from the earliest to the latest date over all input
\* series, without gap or repetition, also when the series' ranges are apart.
C3_DenseDateAxis ==
    (mpc = "merged" /\ table.err = "none" /\ table.how = "outer") =>
        /\ Len(table.rows) = SetMax(InputMonths) - SetMin(InputMonths) + 1
        /\ \A m \in SetMin(InputMonths)..SetMax(InputMonths) :
              \E j \in 1..Len(table.rows) : MonthIdx(table.rows[j].date) = m

\* C4 (as claimed): when two series loaded from different sources have the
\* same name, the merge aborts with MergeColumnCollision.
C4_CollisionAborts ==
    (mpc = "merged"
       /\ \E i, j \in 1..Len(loads) :
             i < j /\ loads[i].name = loads[j].name /\ loads[i].source # loads[j].source) =>
        table.err = "MergeColumnCollision"

----------------------------------------------------------------------------
(* DataIntegrityChecker: one source file is checked against the column of    *)
(* the merged table that carries it, then the summary report is made.        *)
(* An entry of issues, warnings and validations is [source, text, n]: the     *)
(* source name the message starts with, its wording, and the number in it.    *)

source_name == "src"

Entry(src, text, n) == [source |-> src, text |-> text, n |-> n]

\* the most frequent string length of a column (Series.mode()[0]: the
\* smallest of the most frequent)
ModeLen(rows) ==
    LET lens == {Len(Str(rows[i].cell)) : i \in 1..Len(rows)}
        count(l) == Cardinality({i \in 1..Len(rows) : Len(Str(rows[i].cell)) = l})
    IN  SetMin({l \in lens : \A k \in lens : count(k) <= count(l)})

\* check_date_alignment, the parsed_date column by the source's date column
checker_parse(col, rows) ==
    LET n == Len(rows)
        tok(i) == Str(rows[i].cell)
        ymd == [i \in 1..n |-> Strptime_Ymd(tok(i))]
    IN  CASE col = "TIME" ->
                 IF \A i \in 1..n : ymd[i] = NaT
                 THEN [i \in 1..n |-> Strptime_YdotM(tok(i))] ELSE ymd
          [] col = "date" -> [i \in 1..n |-> OrRaise(to_datetime(tok(i)))]
          [] OTHER ->
                 IF ModeLen(rows) = 4
                 THEN [i \in 1..n |-> OrRaise(Strptime_Ymd(tok(i) \o <<"0", "1", "0", "1">>))]
                 ELSE [i \in 1..n |-> OrRaise(Strptime_Ymd(tok(i) \o <<"0", "1">>))]

\* the monthly series the checker expects: monthly mean, dated month start
expected_monthly(valid) == to_month_start(resample("M", "mean", valid))

tolerance == Frac(1, 100)
expected_monthly_gap == 30

\* the loop over the expected rows: what one expected row adds to the
\* date_shifts and to the value_mismatches list
merged_row(subset, orig_date) == SelectSeq(subset, LAMBDA r : r.date = orig_date)

value_matches(subset, orig_value) ==
    SelectSeq(subset, LAMBDA r : FLess(FAbs(FSub(r.value, orig_value)), tolerance))

date_shift_of(row, subset) ==
    IF row.value = NaN \/ merged_row(subset, row.date) # <<>>
       \/ value_matches(subset, row.value) = <<>>
    THEN <<>>
    ELSE <<[original_date |-> row.date,
            shifted_to |-> value_matches(subset, row.value)[1].date,
            days_shifted |-> DaysBetween(value_matches(subset, row.value)[1].date, row.date),
            value |-> row.value]>>

\* a comparison that records every difference, however small
value_mismatch_of_any(row, subset) ==
    IF row.value = NaN \/ merged_row(subset, row.date) = <<>> THEN <<>>
    ELSE LET merged_value == merged_row(subset, row.date)[1].value
         IN  IF merged_value # row.value
             THEN <<[date |-> row.date,
                     original_value |-> row.value,
                     merged_value |-> merged_value,
                     difference |-> FSub(merged_value, row.value)]>>
             ELSE <<>>

value_mismatch_of(row, subset) ==
    IF row.value = NaN \/ merged_row(subset, row.date) = <<>> THEN <<>>
    ELSE LET merged_value == merged_row(subset, row.date)[1].value
         IN  IF FLess(tolerance, FAbs(FSub(merged_value, row.value)))
             THEN <<[date |-> row.date,
                     original_value |-> row.value,
                     merged_value |-> merged_value,
                     difference |-> FSub(merged_value, row.value)]>>
             ELSE <<>>

compare_rows(exp, subset) ==
    [date_shifts |-> Flatten([i \in 1..Len(exp) |-> date_shift_of(exp[i], subset)]),
     value_mismatches |-> Flatten([i \in 1..Len(exp) |-> value_mismatch_of(exp[i], subset)])]

\* _check_frequency_consistency on the expected monthly frame: the largest
\* step between consecutive dates beyond 1.5 expected gaps, 0 when none
max_large_gap(f) ==
    LET gaps == {DaysBetween(f[i + 1].date, f[i].date) : i \in 1..(Len(f) - 1)}
        large == {g \in gaps : 2 * g > 3 * expected_monthly_gap}
    IN  IF large = {} THEN 0 ELSE SetMax(large)

\* check_date_alignment(original_file, merged_df, source_name): the checker
\* lists and the two local lists after the call
check_date_alignment(orig, mdf, chk) ==
    LET dates == checker_parse(orig.col, orig.rows)
        frame == [i \in 1..Len(dates) |-> Row(dates[i], orig.rows[i].value)]
        none == [date_shifts |-> <<>>, value_mismatches |-> <<>>]
        original_monthly == expected_monthly(dropna(frame))
        lists == compare_rows(original_monthly, SelectSeq(mdf, HasValue))
        gap == max_large_gap(original_monthly)
    IN  IF orig.file = "not_csv" THEN [chk |-> chk, lists |-> none]
        ELSE IF orig.file # "readable" \/ AnyRaise(frame)
        THEN [chk |-> [chk EXCEPT !.issues =
                          Append(@, Entry(source_name, "error during validation", 0))],
              lists |-> none]
        ELSE IF dropna(frame) = <<>> THEN [chk |-> chk, lists |-> none]
        ELSE [chk |->
                 [issues |-> chk.issues \o
                     (IF lists.date_shifts # <<>>
                      THEN <<Entry(source_name, "date shifts", Len(lists.date_shifts))>>
                      ELSE <<>>),
                  warnings |-> chk.warnings \o
                     (IF lists.value_mismatches # <<>>
                      THEN <<Entry(source_name, "value mismatches",
                                   Len(lists.value_mismatches))>>
                      ELSE <<>>) \o
                     (IF Len(original_monthly) > 1 /\ gap > 0
                      THEN <<Entry(source_name, "irregular frequency", gap)>>
                      ELSE <<>>),
                  validations |-> chk.validations \o
                     (IF lists.date_shifts = <<>> /\ lists.value_mismatches = <<>>
                      THEN <<Entry(source_name, "perfectly aligned", 0)>>
                      ELSE <<>>)],
              lists |-> lists]

\* check_merge_integrity, one source of its three loops: a source whose file
\* does not exist is passed over
check_source(orig, mdf, chk) ==
    IF orig.file = "missing"
    THEN [chk |-> chk, lists |-> [date_shifts |-> <<>>, value_mismatches |-> <<>>]]
    ELSE check_date_alignment(orig, mdf, chk)

\* the three checks of _generate_summary_report on the whole merged table
is_monotonic_increasing(mdf) ==
    \A i \in 1..(Len(mdf) - 1) : DateLE(mdf[i].date, mdf[i + 1].date)

\* a count of the dates that occur more than once, not of the repeating rows
duplicated_sum_dates(mdf) ==
    Cardinality({d \in DatesOf(mdf) : Cardinality({i \in 1..Len(mdf) : mdf[i].date = d}) > 1})

duplicated_sum(mdf) ==
    Cardinality({i \in 1..Len(mdf) : \E j \in 1..(i - 1) : mdf[j].date = mdf[i].date})

missing_dates(mdf) ==
    LET ds == SortedDates(DatesOf(mdf))
        expected_dates == date_range_MS(ds[1], ds[Len(ds)])
    IN  {expected_dates[i] : i \in 1..Len(expected_dates)} \ DatesOf(mdf)

\* global checks that are left out once a source has recorded an issue
global_checks_if_clean(mdf, iss) ==
    LET i1 == IF is_monotonic_increasing(mdf) THEN iss
              ELSE Append(iss, Entry("", "Date ordering issue in merged data", 0))
        i2 == IF duplicated_sum(mdf) = 0 THEN i1
              ELSE Append(i1, Entry("", "duplicate dates in merged data", duplicated_sum(mdf)))
    IN  IF iss # <<>> THEN iss
        ELSE IF missing_dates(mdf) = {} THEN i2
        ELSE Append(i2, Entry("", "missing months", Cardinality(missing_dates(mdf))))

global_checks(mdf, iss) ==
    LET i1 == IF is_monotonic_increasing(mdf) THEN iss
              ELSE Append(iss, Entry("", "Date ordering issue in merged data", 0))
        i2 == IF duplicated_sum(mdf) = 0 THEN i1
              ELSE Append(i1, Entry("", "duplicate dates in merged data", duplicated_sum(mdf)))
    IN  IF missing_dates(mdf) = {} THEN i2
        ELSE Append(i2, Entry("", "missing months", Cardinality(missing_dates(mdf))))

\* a verdict that counts warnings as failures
final_verdict_strict(iss, warns) == IF iss = <<>> /\ warns = <<>> THEN "pass" ELSE "fail"

\* the final verdict of the report, and what _run_integrity_check returns
final_verdict(iss, warns) == IF iss = <<>> THEN "pass" ELSE "fail"

\* The source files and merged tables of the model.  A source file has rows
\* of distinct months of 2020 in any order; the merged table is derived from
\* it the way tests/test_date_shift_detection.py derives its tables.
CheckCols == {"TIME", "date", "PRD_DE"}

\* what the checker finds at the source's path when it comes to read it: a
\* CSV file it can read, no file, a file of another type, a file whose
\* reading fails.  MaxUnreadRows bounds the rows of a file that is not read.
FileStates == {"readable", "missing", "not_csv", "unreadable"}
OrigMonths == 1..4
OrigValues == {Num(50), Num(55)}

ShapeOfCol(col) ==
    CASE col = "TIME" -> "YYYYMMDD" [] col = "date" -> "ISO" [] OTHER -> "YYYYMM"

FileFrame(orig) ==
    [i \in 1..Len(orig.rows) |-> Row(TokenDate(orig.rows[i].cell), orig.rows[i].value)]

shift_dates(f, k) == [i \in 1..Len(f) |-> Row(AddMonths(f[i].date, k), f[i].value)]
add_to_first(f, x) == [i \in 1..Len(f) |-> IF i = 1 THEN Row(f[i].date, FAdd(f[i].value, x)) ELSE f[i]]
\* every row but the last carries the value of the following month, every row
\* but the first the value of the month before: the dates stay as they are
push_values(f) == [i \in 1..Len(f) |-> IF i < Len(f) THEN Row(f[i].date, f[i + 1].value) ELSE f[i]]
pull_values(f) == [i \in 1..Len(f) |-> IF i > 1 THEN Row(f[i].date, f[i - 1].value) ELSE f[i]]
null_values(f) == [i \in 1..Len(f) |-> Row(f[i].date, NaN)]

Derivations ==
    {"correct", "copy", "dates_plus_month", "dates_minus_month", "value_off", "value_near", "null_column", "dup_row",
     "dup_twice", "values_pushed", "values_pulled"}

Derive(how, orig) ==
    LET copy == FileFrame(orig)
        correct == expected_monthly(copy)
    IN  CASE how = "correct" -> correct
          [] how = "copy" -> copy
          [] how = "dates_plus_month" -> shift_dates(copy, 1)
          [] how = "dates_minus_month" -> shift_dates(copy, -1)
          [] how = "value_off" -> add_to_first(correct, Num(5))
          [] how = "value_near" -> add_to_first(correct, Frac(1, 200))
          [] how = "null_column" -> null_values(correct)
          [] how = "values_pushed" -> push_values(correct)
          [] how = "values_pulled" -> pull_values(correct)
          [] how = "dup_twice" -> correct \o <<correct[Len(correct)], correct[Len(correct)]>>
          [] OTHER -> Append(correct, correct[Len(correct)])

InitCheck ==
    /\ NormIdle /\ ResIdle /\ MergeIdle
    /\ original \in {[col |-> c, rows |-> <<>>, file |-> "readable"] : c \in CheckCols}
    /\ merged_df = <<>>
    /\ checker = [issues |-> <<>>, warnings |-> <<>>, validations |-> <<>>]
    /\ report = [date_shifts |-> <<>>, value_mismatches |-> <<>>, verdict |-> "none"]
    /\ cpc = "build"

AddOrigRow ==
    /\ cpc = "build"
    /\ Len(original.rows) < MaxOrig
    /\ \E m \in OrigMonths, v \in OrigValues :
          LET cell == Token(ShapeOfCol(original.col), <<2020, m, 1>>)
          IN  /\ \A i \in 1..Len(original.rows) : original.rows[i].cell # cell
              /\ original' = [original EXCEPT !.rows = Append(@, [cell |-> cell, value |-> v])]
    /\ UNCHANGED <<merged_df, checker, report, cpc, normVars, resVars, mergeVars>>

Harness_derive_merged ==
    /\ cpc = "build" /\ original.rows # <<>>
    /\ \E how \in Derivations : merged_df' = Derive(how, original)
    /\ cpc' = "ready"
    /\ UNCHANGED <<original, checker, report, normVars, resVars, mergeVars>>

Checker_check_date_alignment ==
    /\ cpc = "ready"
    /\ \E f \in FileStates :
          /\ (f # "readable") => Len(original.rows) <= MaxUnreadRows
          /\ LET orig == [original EXCEPT !.file = f]
                 res == check_source(orig, merged_df, checker)
             IN  /\ original' = orig
                 /\ checker' = res.chk
                 /\ report' = [report EXCEPT !.date_shifts = res.lists.date_shifts,
                                             !.value_mismatches = res.lists.value_mismatches]
    /\ cpc' = "checked"
    /\ UNCHANGED <<merged_df, normVars, resVars, mergeVars>>

Checker_generate_summary_report ==
    /\ cpc = "checked"
    /\ LET iss == global_checks(merged_df, checker.issues)
       IN  /\ checker' = [checker EXCEPT !.issues = iss]
           /\ report' = [report EXCEPT !.verdict = final_verdict(iss, checker.warnings)]
    /\ cpc' = "reported"
    /\ UNCHANGED <<original, merged_df, normVars, resVars, mergeVars>>

\* a second pass on the same checker instance, the files unchanged: the
\* per-source check and the summary report once more
Checker_second_pass ==
    /\ cpc = "reported"
    /\ \E res \in {check_source(original, merged_df, checker)} :
       \E iss \in {global_checks(merged_df, res.chk.issues)} :
          /\ checker' = [issues |-> iss, warnings |-> res.chk.warnings,
                         validations |-> res.chk.validations]
          /\ report' = [date_shifts |-> res.lists.date_shifts,
                        value_mismatches |-> res.lists.value_mismatches,
                        verdict |-> final_verdict(iss, res.chk.warnings)]
    /\ cpc' = "reported_again"
    /\ UNCHANGED <<original, merged_df, normVars, resVars, mergeVars>>

NextCheck ==
    \/ AddOrigRow
    \/ Harness_derive_merged
    \/ Checker_check_date_alignment
    \/ Checker_generate_summary_report
    \/ Checker_second_pass

SpecCheck == InitCheck /\ [][NextCheck]_vars

\* the merged table is the source series with every date one month later
IsShiftedCopy ==
    /\ original.rows # <<>> /\ original.file = "readable"
    /\ merged_df = shift_dates(FileFrame(original), 1)

\* C1 (as claimed): checking a series against its copy shifted by one month
\* records a date-shift entry in issues, a date shift whose day delta is the
\* one-month shift, and no 'perfectly aligned' validation.
C1_ShiftDetected ==
    (cpc \in {"checked", "reported"} /\ IsShiftedCopy) =>
        /\ \E i \in 1..Len(checker.issues) :
              checker.issues[i].source = source_name /\ checker.issues[i].text = "date shifts"
        /\ \E k \in 1..Len(report.date_shifts) :
              report.date_shifts[k].days_shifted
                  = DaysInMonth(report.date_shifts[k].original_date[1],
                                report.date_shifts[k].original_date[2])
        /\ \A i \in 1..Len(checker.validations) :
              checker.validations[i].text # "perfectly aligned"

\* C2: after the pass the verdict is fail exactly when issues is non-empty;
\* warnings alone leave it pass.
C2_VerdictIffCritical ==
    (cpc = "reported") =>
        /\ (report.verdict = "fail") <=> (checker.issues # <<>>)
        /\ (report.verdict = "pass") <=> (checker.issues = <<>>)

\* C2 witness: a pass that recorded warnings and no issue ended with pass.
C2_Witness ==
    /\ cpc = "reported"
    /\ checker.warnings # <<>> /\ checker.issues = <<>>
    /\ report.verdict = "pass"

----------------------------------------------------------------------------
(* Quarter tokens in the providers' normalizers                              *)

IsQuarterToken(c) ==
    LET s == Str(c)
    IN  Len(s) = 6 /\ AllDigits(SubSeq(s, 1, 4)) /\ s[5] = "Q" /\ s[6] \in {"1", "2", "3", "4"}

\* day 1 of the first month of the quarter a token names
QuarterStart(c) ==
    LET s == Str(c)
    IN  <<NumOf(SubSeq(s, 1, 4)), 3 * (DigitVal(s[6]) - 1) + 1, 1>>

ProviderNormalizers == {"BOK._parse_bok_date", "KOSIS._parse_kosis_date"}

\* C11 (as claimed): in the BOK and in the KOSIS normalizer a token with a
\* quarter marker resolves to day 1 of the first month of its quarter.
C11_QuarterToFirstMonth ==
    (npc = "done" /\ parsed.fn \in ProviderNormalizers) =>
        \A i \in 1..Len(column) :
            IsQuarterToken(column[i]) => parsed.out[i] = QuarterStart(column[i])

----------------------------------------------------------------------------
(* Duplicate dates in the merged table                                       *)

\* the number of rows that repeat a date already present
RepeatingRows == Len(merged_df) - Cardinality(DatesOf(merged_df))

DuplicateFindings ==
    SelectSeq(checker.issues, LAMBDA en : en.text = "duplicate dates in merged data")

\* C12: when k >= 1 rows of the merged table repeat a date already present,
\* the pass records exactly one duplicate-dates finding, the finding carries
\* the count k, and the verdict is fail.
C12_OneDuplicateFinding ==
    (cpc = "reported" /\ RepeatingRows >= 1) =>
        /\ Len(DuplicateFindings) = 1
        /\ DuplicateFindings[1].n = RepeatingRows
        /\ report.verdict = "fail"

\* C12 witness: a pass over a table in which the same date repeats twice more
\* reported one finding with the count 2.
C12_Witness ==
    /\ cpc = "reported" /\ RepeatingRows = 2
    /\ Len(DuplicateFindings) = 1 /\ DuplicateFindings[1].n = 2
    /\ report.verdict = "fail"

----------------------------------------------------------------------------
(* A source file that cannot be read                                         *)

FindingsOf(list, src) == SelectSeq(list, LAMBDA en : en.source = src)

\* C13 (as claimed): when the source's file could not be read, a warning is
\* recorded for that source and nothing is recorded in issues on its account.
C13_UnreadableIsWarning ==
    (cpc = "checked" /\ original.file # "readable") =>
        /\ FindingsOf(checker.warnings, source_name) # <<>>
        /\ FindingsOf(checker.issues, source_name) = <<>>

----------------------------------------------------------------------------
(* Gaps in the source's observations                                         *)

\* two consecutive observation dates of the source file lie more than 1.5
\* expected gaps apart
SourceHasGap ==
    LET ds == DatesOf(FileFrame(original))
    IN  \E a \in ds, b \in ds :
           /\ DateLT(a, b)
           /\ \A c \in ds : ~(DateLT(a, c) /\ DateLT(c, b))
           /\ 2 * DaysBetween(b, a) > 3 * expected_monthly_gap

\* C14 (as claimed): a source whose consecutive observations are more than
\* 1.5 periods apart gets an irregular-frequency warning.
C14_GapWarned ==
    (cpc = "checked" /\ original.file = "readable" /\ SourceHasGap) =>
        \E i \in 1..Len(checker.warnings) :
            /\ checker.warnings[i].source = source_name
            /\ checker.warnings[i].text = "irregular frequency"

----------------------------------------------------------------------------
(* Expected pairs whose date is in the merged table                          *)

\* the expected (date, value) pairs of the source: its monthly means
ExpectedPairs == SelectSeq(expected_monthly(FileFrame(original)), HasValue)

\* the non-null values the merged table has at a date
MergedAt(d) == SelectSeq(merged_df, LAMBDA r : r.date = d /\ r.value # NaN)

Differs(e) == FLess(Frac(1, 100), FAbs(FSub(MergedAt(e.date)[1].value, e.value)))

MismatchesAt(d) == SelectSeq(report.value_mismatches, LAMBDA r : r.date = d)
ShiftsAt(d) == SelectSeq(report.date_shifts, LAMBDA r : r.original_date = d)

C15_NearWitness ==
    /\ cpc = "checked" /\ original.file = "readable"
    /\ \E k \in 1..Len(ExpectedPairs) :
          /\ MergedAt(ExpectedPairs[k].date) # <<>>
          /\ MergedAt(ExpectedPairs[k].date)[1].value # ExpectedPairs[k].value
          /\ ~Differs(ExpectedPairs[k])
    /\ report.value_mismatches = <<>> /\ checker.warnings = <<>>

----------------------------------------------------------------------------
(* What the caller holds after a pass                                        *)

\* After check_merge_integrity the caller holds the checker object: its
\* issues, warnings and validations.  The date_shifts and value_mismatches
\* lists are locals of check_date_alignment and the verdict is printed.
RetrievableFindings(text) ==
    SelectSeq(checker.issues \o checker.warnings,
              LAMBDA en : en.source = source_name /\ en.text = text)

\* C16 (as claimed): after a pass the caller retrieves one record per
\* finding: as many date-shift records as date shifts were detected and as
\* many value-mismatch records as value mismatches were detected.
C16_OneRecordPerFinding ==
    (cpc = "reported" /\ original.file = "readable") =>
        /\ Len(RetrievableFindings("date shifts")) = Len(report.date_shifts)
        /\ Len(RetrievableFindings("value mismatches")) = Len(report.value_mismatches)

----------------------------------------------------------------------------
(* Records with tokens that do not parse: the rows of a BOK response or file *)
(* carry a TIME token and a DATA_VALUE token.  raw holds the records, both    *)
(* fields as string cells; series holds what the operation returns.           *)

Pow10(k) == IF k = 0 THEN 1 ELSE IF k = 1 THEN 10 ELSE IF k = 2 THEN 100 ELSE 1000

\* pd.to_numeric(column, errors='coerce') of one token: an unsigned or signed
\* decimal numeral gives its number, anything else NaN
to_numeric_unsigned(s) ==
    IF s = <<>> THEN NaN
    ELSE IF AllDigits(s) THEN Num(NumOf(s))
    ELSE LET dots == {i \in 1..Len(s) : s[i] = "."}
         IN  IF Cardinality(dots) # 1 THEN NaN
             ELSE LET p == CHOOSE i \in dots : TRUE
                      ip == SubSeq(s, 1, p - 1)
                      fp == SubSeq(s, p + 1, Len(s))
                  IN  IF Len(s) > 1 /\ Len(fp) <= 3 /\ AllDigits(ip) /\ AllDigits(fp)
                      THEN Frac(NumOf(ip \o fp), Pow10(Len(fp)))
                      ELSE NaN

to_numeric(c) ==
    LET s == Str(c)
    IN  IF s # <<>> /\ s[1] = "-"
        THEN LET u == to_numeric_unsigned(Tail(s))
             IN  IF u = NaN THEN NaN ELSE FSub(Num(0), u)
        ELSE to_numeric_unsigned(s)

\* the records with their DATA_VALUE converted
NumericRows(recs) == [i \in 1..Len(recs) |-> [cell |-> recs[i].cell, value |-> to_numeric(recs[i].value)]]

\* BOKConnector.fetch_data, from the rows of the response to the returned
\* frame: dates by _parse_bok_date, values by to_numeric, rows without a date
\* removed, sorted by date
BOK_fetch_data_frame(recs) ==
    SortByDate(dropna_date(ParsedFrame(BOK_parse_bok_date, NumericRows(recs))))

\* fetch_data returns the frame alone: the number of rows it removed is not
\* returned, not stored on the connector and not logged
BOK_fetch_data_dropped(recs) == 0

\* the checker's expected series of a TIME file (check_date_alignment up to
\* the monthly frame)
checker_expected(recs) ==
    LET dates == checker_parse("TIME", recs)
        frame == [i \in 1..Len(recs) |-> Row(dates[i], to_numeric(recs[i].value))]
    IN  IF dropna(frame) = <<>> THEN <<>> ELSE expected_monthly(dropna(frame))

FetchTimes ==
    {StrCell(<<"2", "0", "2", "0", "0", "1", "0", "1">>),
     StrCell(<<"2", "0", "2", "0", "0", "3", "1", "5">>),
     StrCell(<<"2", "0", "2", "0", "1", "1">>),
     StrCell(<<"2", "0", "2", "0", "S", "1">>)}
FetchValues ==
    {StrCell(<<"5", "0">>), StrCell(<<"5", ".", "5">>), StrCell(<<"-">>)}

InitFetch ==
    /\ NormIdle /\ MergeIdle /\ CheckIdle
    /\ shape = "records"
    /\ raw = <<>>
    /\ series = [fn |-> "none", agg |-> "none", err |-> FALSE, out |-> <<>>]
    /\ merged = <<>>
    /\ rpc = "build"

AddRecord ==
    /\ rpc = "build"
    /\ Len(raw) < MaxRaw
    /\ \E t \in FetchTimes, v \in FetchValues : raw' = Append(raw, [cell |-> t, value |-> v])
    /\ UNCHANGED <<shape, series, merged, rpc, normVars, mergeVars, checkVars>>

BOK_fetch_data ==
    /\ rpc = "build" /\ raw # <<>>
    /\ Done("BOK.fetch_data", "none", FALSE, BOK_fetch_data_frame(raw), <<>>)

\* merge_data_complete.main, BOK loader, on a file of such records
Script_BOK_records ==
    /\ rpc = "build" /\ raw # <<>>
    /\ IF AnyRaise(ParsedFrame(parse_bok_date, NumericRows(raw)))
       THEN Done("script_bok", "mean", TRUE, <<>>, merge_on_grid(<<>>))
       ELSE LET out == bok_monthly(NumericRows(raw))
            IN  Done("script_bok", "mean", FALSE, out, merge_on_grid(out))

Checker_expected_series ==
    /\ rpc = "build" /\ raw # <<>>
    /\ Done("checker_expected", "mean", FALSE, checker_expected(raw), <<>>)

NextFetch ==
    \/ AddRecord
    \/ BOK_fetch_data
    \/ Script_BOK_records
    \/ Checker_expected_series

SpecFetch == InitFetch /\ [][NextFetch]_vars

\* C17 (as claimed): after fetch_data, the rows kept plus the reported count
\* of dropped rows equal the number of input rows.
C17_DropsAccounted ==
    (rpc = "done" /\ series.fn = "BOK.fetch_data") =>
        Len(series.out) + BOK_fetch_data_dropped(raw) = Len(raw)

\* a record whose date token parses and whose value token is not a number
NonNumericAt(i) == Len(Str(raw[i].cell)) = 8 /\ to_numeric(raw[i].value) = NaN

\* the date the record has in the series: its own date in the frame
\* fetch_data returns, its month in a monthly series
SeriesDateOf(i) ==
    IF series.fn = "BOK.fetch_data" THEN TokenDate(raw[i].cell)
    ELSE MonthStart(MonthIdx(TokenDate(raw[i].cell)))

\* the records with a number that the series puts on the same row
NumericCompanions(i) ==
    IF series.fn = "BOK.fetch_data" THEN {}
    ELSE {j \in 1..Len(raw) :
             /\ Len(Str(raw[j].cell)) = 8
             /\ MonthIdx(TokenDate(raw[j].cell)) = MonthIdx(TokenDate(raw[i].cell))
             /\ to_numeric(raw[j].value) # NaN}

\* C18 (as claimed): an observation whose value token is not a number has a
\* row in its series at its own date, and the row is null when no numeric
\* observation shares it; it is neither dropped nor made zero.
C18_NonNumericKept ==
    (rpc = "done" /\ shape = "records" /\ ~series.err) =>
        \A i \in 1..Len(raw) :
            NonNumericAt(i) =>
                \E k \in 1..Len(series.out) :
                    /\ series.out[k].date = SeriesDateOf(i)
                    /\ (NumericCompanions(i) = {}) => series.out[k].value = NaN

----------------------------------------------------------------------------
(* Derived columns: percentage change and year-over-year change of a value   *)
(* column.  table holds the merged table of one value column built at         *)
(* frequency freq; its first lead rows hold a constant series.                *)

Inf == <<1, 0>>
NegInf == <<-1, 0>>

\* float division a / b: by zero it gives an infinity, 0 / 0 and anything
\* with NaN give NaN
FDiv(a, b) ==
    IF a = NaN \/ b = NaN THEN NaN
    ELSE IF b[1] = 0
         THEN IF a[1] = 0 \/ a[2] = 0 THEN NaN ELSE IF a[1] > 0 THEN Inf ELSE NegInf
    ELSE IF a[2] = 0 THEN IF (a[1] > 0) = (b[1] > 0) THEN Inf ELSE NegInf
    ELSE IF b[1] > 0 THEN Frac(a[1] * b[2], a[2] * b[1])
    ELSE Frac(-(a[1] * b[2]), -(a[2] * b[1]))

\* (q - 1) * 100 of a quotient
PctOfQuotient(q) ==
    IF q = NaN THEN NaN
    ELSE IF q[2] = 0 THEN q
    ELSE Frac((q[1] - q[2]) * 100, q[2])

\* Series.pct_change(periods): the column is forward-filled first (the
\* default fill_method='pad'), then divided by itself shifted by periods
pct_change(f, periods) ==
    LET data == ffill(f)
    IN  [i \in 1..Len(f) |->
            IF i <= periods THEN NaN
            ELSE PctOfQuotient(FDiv(data[i].value, data[i - periods].value))]

yoy_periods == 12

\* KoreanMacroDataMerger.add_derived_features, the columns made of 'value'
add_derived_features(f) ==
    LET pc == pct_change(f, 1)
        yoy == pct_change(f, yoy_periods)
    IN  [i \in 1..Len(f) |->
            [date |-> f[i].date, value |-> f[i].value,
             pct_change |-> pc[i], pct_change_yoy |-> yoy[i]]]

\* merge_data_complete.main: the columns are made only for a column with
\* more than 12 values
min_values == 12
script_pct_change(f) ==
    IF Len(SelectSeq(f, HasValue)) > min_values THEN add_derived_features(f) ELSE f

FeatFreqs == {"M", "Q"}
FeatLeads == {0, 8}
LeadValues == {Num(0), Num(50)}
FeatValues == {Num(0), Num(55), NaN}

\* the date of row i of a table built at a frequency, from January 2020 on
FeatDate(freq, i) == PeriodLabel(freq, PeriodIdx(freq, <<2020, 1, 1>>) + i - 1)

LeadRows(freq, k, v) == [i \in 1..k |-> Row(FeatDate(freq, i), v)]

InitFeat ==
    /\ NormIdle /\ ResIdle /\ CheckIdle
    /\ loads = <<>>
    /\ datasets = <<>>
    /\ \E fr \in FeatFreqs, k \in FeatLeads, v \in LeadValues :
          table = [err |-> "none", how |-> "none", freq |-> fr, lead |-> k,
                   rows |-> LeadRows(fr, k, v)]
    /\ mpc = "table"

AddTableRow ==
    /\ mpc = "table"
    /\ Len(table.rows) < table.lead + MaxFeat
    /\ \E v \in FeatValues :
          table' = [table EXCEPT !.rows =
                       Append(@, Row(FeatDate(table.freq, Len(table.rows) + 1), v))]
    /\ UNCHANGED <<loads, datasets, mpc, normVars, resVars, checkVars>>

Merger_add_derived_features ==
    /\ mpc = "table" /\ table.rows # <<>>
    /\ table' = [table EXCEPT !.how = "add_derived_features",
                              !.rows = add_derived_features(table.rows)]
    /\ mpc' = "featured"
    /\ UNCHANGED <<loads, datasets, normVars, resVars, checkVars>>

Script_pct_change ==
    /\ mpc = "table" /\ table.rows # <<>> /\ table.freq = "M"
    /\ table' = [table EXCEPT !.how = "script", !.rows = script_pct_change(table.rows)]
    /\ mpc' = "featured"
    /\ UNCHANGED <<loads, datasets, normVars, resVars, checkVars>>

NextFeat ==
    \/ AddTableRow
    \/ Merger_add_derived_features
    \/ Script_pct_change

SpecFeat == InitFeat /\ [][NextFeat]_vars

HasDerived(i) == "pct_change_yoy" \in DOMAIN table.rows[i]

\* the periods a year has at a frequency
PeriodsPerYear(freq) == IF freq = "M" THEN 12 ELSE 4

\* the change in percent from base to value
PctFrom(base, value) == Frac((value[1] * base[2] - base[1] * value[2]) * 100, base[1] * value[2])

\* C19 (as claimed): the year-over-year column compares each row with the row
\* N rows earlier, N = 12 in a monthly table and N = 4 in a quarterly table.
C19_YoYByFrequency ==
    (mpc = "featured" /\ table.how = "add_derived_features") =>
        \A i \in 1..Len(table.rows) :
            LET N == PeriodsPerYear(table.freq)
            IN  (/\ i > N
                 /\ table.rows[i].value # NaN
                 /\ table.rows[i - N].value # NaN
                 /\ table.rows[i].value[1] # 0
                 /\ table.rows[i - N].value[1] # 0) =>
                    table.rows[i].pct_change_yoy
                        = PctFrom(table.rows[i - N].value, table.rows[i].value)

\* the base row of row i at a lag has no usable value
NoBase(i, lag) ==
    \/ i <= lag
    \/ table.rows[i - lag].value = NaN
    \/ table.rows[i - lag].value[1] = 0

IsInfinite(x) == x # NaN /\ x[2] = 0

\* C20 (as claimed): in the percentage-change column, and in the
\* year-over-year column of a monthly table, a row without a base row or with
\* a zero or null base value is null, and no row holds an infinity.
C20_UndefinedIsNull ==
    (mpc = "featured") =>
        \A i \in 1..Len(table.rows) :
            HasDerived(i) =>
                /\ NoBase(i, 1) => table.rows[i].pct_change = NaN
                /\ (table.freq = "M" /\ NoBase(i, 12)) => table.rows[i].pct_change_yoy = NaN
                /\ ~IsInfinite(table.rows[i].pct_change)
                /\ ~IsInfinite(table.rows[i].pct_change_yoy)

----------------------------------------------------------------------------
(* Saving the merged table: create_research_dataset or merge_datasets, then  *)
(* save_merged_data with its automatic integrity check.  table.rows is        *)
(* self.merged_data, table.returned what the merging call returned, and       *)
(* table.saved the rows written to the file.                                  *)

\* the column of a dataset in the merged table, f'value_{name}', and the
\* column check_date_alignment looks up for a source, f'{source_name}_value',
\* as the words the underscores separate
merged_value_column(name) == <<"value", name>>
checker_value_column(name) == <<name, "value">>

ColumnsOf(rows) == IF rows = <<>> THEN {} ELSE DOMAIN rows[1].vals

column_frame(rows, n) == [i \in 1..Len(rows) |-> Row(rows[i].date, rows[i].vals[n])]

\* add_derived_features on a merged table: the two derived columns of every
\* value column
research_features(rows) ==
    LET cols == ColumnsOf(rows)
        pc == [n \in cols |-> pct_change(column_frame(rows, n), 1)]
        yoy == [n \in cols |-> pct_change(column_frame(rows, n), yoy_periods)]
    IN  [i \in 1..Len(rows) |->
            [date |-> rows[i].date, vals |-> rows[i].vals,
             pct_change |-> [n \in cols |-> pc[n][i]],
             pct_change_yoy |-> [n \in cols |-> yoy[n][i]]]]

\* create_research_dataset(freq, start, stop): merge_datasets stores its
\* result in self.merged_data; the range filter and the derived features are
\* applied to the local table that is returned
create_research_dataset(ds, freq, start, stop) ==
    LET m == merge_datasets(ds, "outer", freq)
    IN  [merged_data |-> m.rows,
         returned |-> research_features(InRange(start, stop, m.rows))]

\* to_csv then read_csv with pd.to_datetime on the date column
csv_round_trip(rows) ==
    [i \in 1..Len(rows) |-> [rows[i] EXCEPT !.date = ParseIso(Str(Token("ISO", @)))]]

\* the loaded names whose values check_date_alignment can compare: those
\* whose looked-up column is a column of the table
compared_sources(names, rows) ==
    {n \in names : checker_value_column(n) \in {merged_value_column(c) : c \in ColumnsOf(rows)}}

\* _run_integrity_check(filepath): None when the checker cannot be imported
\* or the pass raises (pd.date_range on an empty table), else whether
\* checker.issues is empty
run_integrity_check(saved, importable) ==
    IF ~importable THEN [result |-> "None", issues |-> <<>>, raised |-> "ImportError"]
    ELSE IF saved = <<>> THEN [result |-> "None", issues |-> <<>>, raised |-> "ValueError"]
    ELSE LET iss == global_checks(csv_round_trip(saved), <<>>)
         IN  [result |-> IF iss # <<>> THEN "False" ELSE "True", issues |-> iss,
              raised |-> "none"]

\* the calls of the model: a call without the check is made for csv only, and
\* the checker module matters only to a call that runs the check
SaveFormats == {"csv", "parquet", "json"}
SaveCalls ==
    {c \in [format : SaveFormats, check : BOOLEAN, importable : BOOLEAN] :
        /\ (~c.importable) => (c.format = "csv" /\ c.check)
        /\ (~c.check) => (c.format = "csv")}

ResearchRanges == {[start |-> <<2020, 2, 1>>, stop |-> <<2020, 12, 31>>]}

NoSave == [format |-> "none", check |-> FALSE, importable |-> TRUE]

InitSave ==
    /\ NormIdle /\ ResIdle /\ CheckIdle
    /\ loads = <<>>
    /\ datasets = <<>>
    /\ table = [err |-> "none", via |-> "none", rows |-> <<>>, returned |-> <<>>,
                saved |-> <<>>, call |-> NoSave, result |-> "none", issues |-> <<>>,
                raised |-> "none", compared |-> {}]
    /\ mpc = "build"

Save_merge_datasets ==
    /\ mpc = "build" /\ datasets # <<>>
    /\ \E freq \in {"M", "none"} :
          LET m == merge_datasets(datasets, "outer", freq)
          IN  table' = [table EXCEPT !.via = "merge_datasets",
                                     !.rows = m.rows, !.returned = m.rows]
    /\ mpc' = "merged"
    /\ UNCHANGED <<loads, datasets, normVars, resVars, checkVars>>

Save_create_research_dataset ==
    /\ mpc = "build" /\ datasets # <<>>
    /\ \E r \in ResearchRanges :
          LET c == create_research_dataset(datasets, "M", r.start, r.stop)
          IN  table' = [table EXCEPT !.via = "create_research_dataset",
                                     !.rows = c.merged_data, !.returned = c.returned]
    /\ mpc' = "merged"
    /\ UNCHANGED <<loads, datasets, normVars, resVars, checkVars>>

Merger_save_merged_data ==
    /\ mpc \in {"build", "merged"}
    /\ \E c \in SaveCalls :
          IF mpc = "build" THEN table' = [table EXCEPT !.err = "ValueError"]
          ELSE IF c.format \notin {"csv", "excel", "parquet"}
          THEN table' = [table EXCEPT !.call = c, !.err = "ValueError"]
          ELSE IF c.check /\ c.format = "csv"
          THEN LET chk == run_integrity_check(table.rows, c.importable)
               IN  table' = [table EXCEPT
                       !.call = c, !.saved = table.rows,
                       !.result = chk.result, !.issues = chk.issues, !.raised = chk.raised,
                       !.compared = IF chk.raised = "none"
                                    THEN compared_sources({datasets[i].name : i \in 1..Len(datasets)},
                                                          table.rows)
                                    ELSE {}]
          ELSE table' = [table EXCEPT !.call = c, !.saved = table.rows, !.result = "None"]
    /\ mpc' = "saved"
    /\ UNCHANGED <<loads, datasets, normVars, resVars, checkVars>>

NextSave ==
    \/ Merger_load_data
    \/ Save_merge_datasets
    \/ Save_create_research_dataset
    \/ Merger_save_merged_data

SpecSave == InitSave /\ [][NextSave]_vars

Saved == mpc = "saved" /\ table.err = "none"
CheckRequested == table.call.check /\ table.call.format = "csv"

\* C21 (as claimed): save_merged_data returns None exactly when the check was
\* not requested or the format is not csv, True when the check recorded no
\* issue and False when it recorded one.
C21_ResultOfSave ==
    Saved =>
        /\ (table.result = "None") <=> ~CheckRequested
        /\ (table.result = "True") => (CheckRequested /\ table.issues = <<>>)
        /\ (table.result = "False") => (CheckRequested /\ table.issues # <<>>)

\* C26 (as claimed): after create_research_dataset, save_merged_data writes
\* exactly the table that create_research_dataset returned.
C26_SavesReturnedTable ==
    (Saved /\ table.via = "create_research_dataset") => table.saved = table.returned

\* C28 (as claimed): when the automatic check has run, the merged table has,
\* for every loaded name, the value column the checker looks up for it, so
\* the source is compared.
C28_CheckerFindsColumn ==
    (Saved /\ CheckRequested /\ table.raised = "none") =>
        \A i \in 1..Len(datasets) : datasets[i].name \in table.compared

----------------------------------------------------------------------------
(* A block of values moved by one month in a gapless table                   *)

CorrectTable == expected_monthly(FileFrame(original))

\* the merged table is the correct, gapless table with its values pushed or
\* pulled by one month, and some row differs from the original by more than 0.01
IsValueBlockShift ==
    /\ original.file = "readable"
    /\ \A i \in 1..Len(CorrectTable) : CorrectTable[i].value # NaN
    /\ merged_df \in {push_values(CorrectTable), pull_values(CorrectTable)}
    /\ \E i \in 1..Len(CorrectTable) :
          FLess(Frac(1, 100), FAbs(FSub(merged_df[i].value, CorrectTable[i].value)))

\* C22 (as claimed): a block of values moved by one month in a gapless
\* merged table is recorded as a date shift of the source in issues.
C22_BlockShiftIsDateShift ==
    (cpc = "checked" /\ IsValueBlockShift) =>
        \E i \in 1..Len(checker.issues) :
            checker.issues[i].source = source_name /\ checker.issues[i].text = "date shifts"

----------------------------------------------------------------------------
(* The pass as a whole                                                       *)

CountOf(list, text) == Len(SelectSeq(list, LAMBDA en : en.text = text))

OutOfOrder == \E i \in 1..(Len(merged_df) - 1) : DateLT(merged_df[i + 1].date, merged_df[i].date)

MonthsAbsent ==
    LET ms == {MonthIdx(merged_df[i].date) : i \in 1..Len(merged_df)}
    IN  \E m \in SetMin(ms)..SetMax(ms) : m \notin ms

OneIf(b) == IF b THEN 1 ELSE 0

AlignedPairs ==
    {k \in 1..Len(ExpectedPairs) :
        /\ MergedAt(ExpectedPairs[k].date) # <<>>
        /\ ~Differs(ExpectedPairs[k])}

\* C27 (as claimed): a source is recorded as perfectly aligned only if one of
\* its expected pairs was found at its own date within the tolerance.
C27_ValidatedOnlyIfMatched ==
    (cpc = "checked" /\ original.file = "readable"
       /\ CountOf(checker.validations, "perfectly aligned") > 0) =>
        AlignedPairs # {}

\* what one pass on a fresh checker records for the files as they are
FreshPass ==
    LET res == check_source(original, merged_df,
                            [issues |-> <<>>, warnings |-> <<>>, validations |-> <<>>])
    IN  [res.chk EXCEPT !.issues = global_checks(merged_df, res.chk.issues)]

\* C29 (as claimed): after a second pass on the same instance the checker
\* holds the findings of one pass.
C29_SecondPassSameFindings ==
    (cpc = "reported_again") => checker = FreshPass

----------------------------------------------------------------------------
(* The branch of the FRED loader                                             *)

\* consecutive observations of the raw file are three months or more apart
QuarterOrMoreApart ==
    \A i \in 1..(Len(raw) - 1) :
        MonthIdx(TokenDate(raw[i + 1].cell)) - MonthIdx(TokenDate(raw[i].cell)) >= 3

\* C30 (as claimed): a FRED series whose consecutive observations are a
\* quarter or more apart goes through the forward-fill branch, whatever the
\* number of its observations.
C30_CoarseIsForwardFilled ==
    (rpc = "done" /\ series.fn = "script_fred" /\ ~series.err /\ QuarterOrMoreApart) =>
        series.agg = "ffill"


----------------------------------------------------------------------------
(* Periods without a native observation                                      *)

Aggregators == {"aggregate_time_series", "aggregate_to_monthly"}

\* C25 (as claimed): after an aggregation to months, a month of the result
\* that holds no observation of the raw file is null, under mean, sum and
\* last alike.
C25_EmptyPeriodIsNull ==
    (rpc = "done" /\ series.fn \in Aggregators /\ shape = "ISO") =>
        \A j \in 1..Len(series.out) :
            RawInMonth(MonthIdx(series.out[j].date)) = {} => series.out[j].value = NaN


----------------------------------------------------------------------------
(* The checker's expected series against the pipeline's series               *)

\* the file's TIME column is of one supported format: every token has the
\* same length and the pipeline's normalizer reads every one of them
OneSupportedFormat ==
    /\ \A i, j \in 1..Len(raw) : Len(Str(raw[i].cell)) = Len(Str(raw[j].cell))
    /\ \A i \in 1..Len(raw) : parse_bok_date(raw[i].cell) \notin {NaT, Raise}

\* C24 (as claimed): the expected monthly series of the checker is the series
\* the pipeline's normalizer and monthly-mean resampler give for the file.
C24_ExpectedIsPipeline ==
    (rpc = "done" /\ series.fn = "checker_expected" /\ OneSupportedFormat) =>
        series.out = bok_monthly(NumericRows(raw))

============================================================================
